---- MODULE Spec2Model ----
(***************************************************************************)
(* Tic-tac-toe with move history and time travel (src/src/App.js).         *)
(* The Game component owns history (a list of board snapshots) and          *)
(* currentMove (an index into it); Board.handleClick and Game.jumpTo are    *)
(* the two event handlers that change them.                                 *)
(***************************************************************************)
EXTENDS Integers, Sequences, FiniteSets, TLC

VARIABLES history, currentMove, last

vars == <<history, currentMove, last>>

\* The Square buttons that get clicked are 0 .. MaxCell.
MaxCell == 5

\* Under GameSpec the last FreeMoves of the nine moves of a game are clicked
\* on any square; the moves before them follow Opening.
FreeMoves == 6

\* Largest number of snapshots under ApiSpec, whose boards can grow.
ApiSnapshots == 4

\* How far outside 0 .. 8 and 0 .. length(history)-1 the arguments of
\* ApiSpec go.
OutOfRange == 1

Null == "null"
Undefined == "undefined"

\* The nine squares the Board renders: Square value={squares[0..8]}.
Cells == 0 .. 8

\* Array(9).fill(null)
EmptyBoard == [i \in Cells |-> Null]

\* JavaScript property read: a missing index reads as undefined.
Get(squares, i) == IF i \in DOMAIN squares THEN squares[i] ELSE Undefined

\* JavaScript truthiness of a square value.
Truthy(v) == v # Null /\ v # Undefined

slice_short(squares) == [j \in 0 .. 7 |-> squares[j]]

\* squares.slice(): a copy of the array elements; a property that is not an
\* array index (a negative one) is not copied.
slice(squares) == [j \in {k \in DOMAIN squares : k >= 0} |-> squares[j]]

Put_nextCell(squares, i, v) ==
  [j \in (DOMAIN squares) \cup {i} |->
     IF j = (i + 1) % 9 THEN v ELSE Get(squares, j)]

\* nextSquares[i] = v: the index becomes an own property of the copy.
Put(squares, i, v) ==
  [j \in (DOMAIN squares) \cup {i} |-> IF j = i THEN v ELSE squares[j]]

lines == << <<0, 1, 2>>, <<3, 4, 5>>, <<6, 7, 8>>,
            <<0, 3, 6>>, <<1, 4, 7>>, <<2, 5, 8>>,
            <<0, 4, 8>>, <<2, 4, 6>> >>

LineWins_noThird(squares, l) ==
  LET a == Get(squares, l[1])
  IN Truthy(a) /\ a = Get(squares, l[2])

\* The test of one line inside the loop of calculateWinner.
LineWins(squares, l) ==
  LET a == Get(squares, l[1])
  IN Truthy(a) /\ a = Get(squares, l[2]) /\ a = Get(squares, l[3])

RECURSIVE winnerFrom(_, _)
\* The for loop of calculateWinner, from line index k on.
winnerFrom(squares, k) ==
  IF k > Len(lines) THEN Null
  ELSE IF LineWins(squares, lines[k]) THEN Get(squares, lines[k][1])
  ELSE winnerFrom(squares, k + 1)

calculateWinner(squares) == winnerFrom(squares, 1)

xIsNext_alwaysX == TRUE

xIsNext_odd == currentMove % 2 = 1

\* const xIsNext = currentMove % 2 === 0
xIsNext == currentMove % 2 = 0

\* const currentSquares = history[currentMove]
currentSquares == history[currentMove + 1]

\* The component tree renders only when history[currentMove] is a board.
Rendered == currentMove \in 0 .. Len(history) - 1

Init ==
  /\ history = <<EmptyBoard>>
  /\ currentMove = 0
  /\ last = [op |-> "init", arg |-> 0, res |-> "none", dropped |-> 0]

handlePlay_noTruncate(nextSquares) ==
  LET nextHistory == history \o <<nextSquares>>
  IN /\ history' = nextHistory
     /\ currentMove' = Len(nextHistory) - 1

handlePlay_inPlace(nextSquares) ==
  LET written == [history EXCEPT ![currentMove + 1] = nextSquares]
      nextHistory == SubSeq(written, 1, currentMove + 1) \o <<nextSquares>>
  IN /\ history' = nextHistory
     /\ currentMove' = Len(nextHistory) - 1

\* Game.handlePlay(nextSquares)
handlePlay(nextSquares) ==
  LET nextHistory == SubSeq(history, 1, currentMove + 1) \o <<nextSquares>>
  IN /\ history' = nextHistory
     /\ currentMove' = Len(nextHistory) - 1

handleClick_occupiedFirst(i) ==
  /\ Rendered
  /\ IF Truthy(Get(currentSquares, i))
     THEN /\ last' = [op |-> "click", arg |-> i, res |-> "occupied", dropped |-> 0]
          /\ UNCHANGED <<history, currentMove>>
     ELSE IF Truthy(calculateWinner(currentSquares))
     THEN /\ last' = [op |-> "click", arg |-> i, res |-> "won", dropped |-> 0]
          /\ UNCHANGED <<history, currentMove>>
     ELSE /\ handlePlay(Put(slice(currentSquares), i,
                            IF xIsNext THEN "X" ELSE "O"))
          /\ last' = [op |-> "click", arg |-> i, res |-> "played",
                      dropped |-> Len(history) - (currentMove + 1)]

handleClick_noOccupiedCheck(i) ==
  /\ Rendered
  /\ IF Truthy(calculateWinner(currentSquares))
     THEN /\ last' = [op |-> "click", arg |-> i, res |-> "won", dropped |-> 0]
          /\ UNCHANGED <<history, currentMove>>
     ELSE /\ handlePlay(Put(slice(currentSquares), i,
                            IF xIsNext THEN "X" ELSE "O"))
          /\ last' = [op |-> "click", arg |-> i, res |-> "played",
                      dropped |-> Len(history) - (currentMove + 1)]

handleClick_noWinnerCheck(i) ==
  /\ Rendered
  /\ IF Truthy(Get(currentSquares, i))
     THEN /\ last' = [op |-> "click", arg |-> i, res |-> "occupied",
                      dropped |-> 0]
          /\ UNCHANGED <<history, currentMove>>
     ELSE /\ handlePlay(Put(slice(currentSquares), i,
                            IF xIsNext THEN "X" ELSE "O"))
          /\ last' = [op |-> "click", arg |-> i, res |-> "played",
                      dropped |-> Len(history) - (currentMove + 1)]

handleClick_rangeChecked(i) ==
  /\ Rendered
  /\ IF Truthy(calculateWinner(currentSquares))
     THEN /\ last' = [op |-> "click", arg |-> i, res |-> "won", dropped |-> 0]
          /\ UNCHANGED <<history, currentMove>>
     ELSE IF Truthy(Get(currentSquares, i))
     THEN /\ last' = [op |-> "click", arg |-> i, res |-> "occupied", dropped |-> 0]
          /\ UNCHANGED <<history, currentMove>>
     ELSE IF i \notin Cells
     THEN /\ last' = [op |-> "click", arg |-> i, res |-> "range",
                      dropped |-> 0]
          /\ UNCHANGED <<history, currentMove>>
     ELSE /\ handlePlay(Put(slice(currentSquares), i,
                            IF xIsNext THEN "X" ELSE "O"))
          /\ last' = [op |-> "click", arg |-> i, res |-> "played",
                      dropped |-> Len(history) - (currentMove + 1)]

\* Board.handleClick(i). last records the call and which way the handler
\* returned (by the left or the right operand of the || of its guard, or
\* through onPlay), and how many snapshots handlePlay left out of nextHistory.
handleClick(i) ==
  /\ Rendered
  /\ IF Truthy(calculateWinner(currentSquares))
     THEN /\ last' = [op |-> "click", arg |-> i, res |-> "won", dropped |-> 0]
          /\ UNCHANGED <<history, currentMove>>
     ELSE IF Truthy(Get(currentSquares, i))
     THEN /\ last' = [op |-> "click", arg |-> i, res |-> "occupied", dropped |-> 0]
          /\ UNCHANGED <<history, currentMove>>
     ELSE /\ handlePlay(Put(slice(currentSquares), i,
                            IF xIsNext THEN "X" ELSE "O"))
          /\ last' = [op |-> "click", arg |-> i, res |-> "played",
                      dropped |-> Len(history) - (currentMove + 1)]

jumpTo_eagerTruncate(nextMove) ==
  /\ Rendered
  /\ currentMove' = nextMove
  /\ last' = [op |-> "jump", arg |-> nextMove, res |-> "jumped",
               dropped |-> 0]
  /\ history' = SubSeq(history, 1, nextMove + 1)

jumpTo_rangeChecked(nextMove) ==
  /\ Rendered
  /\ IF nextMove \in 0 .. Len(history) - 1
     THEN /\ currentMove' = nextMove
          /\ last' = [op |-> "jump", arg |-> nextMove, res |-> "jumped",
               dropped |-> 0]
     ELSE /\ currentMove' = currentMove
          /\ last' = [op |-> "jump", arg |-> nextMove, res |-> "range",
                      dropped |-> 0]
  /\ UNCHANGED history

\* Game.jumpTo(nextMove)
jumpTo(nextMove) ==
  /\ Rendered
  /\ currentMove' = nextMove
  /\ last' = [op |-> "jump", arg |-> nextMove, res |-> "jumped",
               dropped |-> 0]
  /\ UNCHANGED history

\* A click on one of the Square buttons 0 .. MaxCell.
SquareClick == \E i \in 0 .. MaxCell : handleClick(i)

MoveClick_offByOne == \E move \in 0 .. Len(history) : jumpTo(move)

\* A click on one of the buttons of the moves list: history.map renders one
\* button per snapshot, calling jumpTo with the snapshot's index.
MoveClick == \E move \in 0 .. Len(history) - 1 : jumpTo(move)

Next == SquareClick \/ MoveClick

Spec == Init /\ [][Next]_vars

\* The handlers called with arguments no button supplies.
ClickArgs ==
  ((0 - OutOfRange) .. (0 - 1)) \cup (0 .. MaxCell) \cup (9 .. (8 + OutOfRange))

JumpArgs == (0 - OutOfRange) .. (Len(history) - 1 + OutOfRange)

ApiClick ==
  \E i \in ClickArgs : handleClick(i) /\ Len(history') <= ApiSnapshots

ApiJump == \E m \in JumpArgs : jumpTo(m)

ApiNext == ApiClick \/ ApiJump

ApiSpec == Init /\ [][ApiNext]_vars

\* Whole games on all nine squares, with time travel. The squares clicked at
\* the first 9 - FreeMoves indexes are those of Opening.
Opening == <<4, 0, 8, 2, 1, 7, 3, 5, 6>>

GameClick ==
  \E i \in Cells :
    /\ currentMove < 9 - FreeMoves => i = Opening[currentMove + 1]
    /\ handleClick(i)

GameNext == GameClick \/ MoveClick

GameSpec == Init /\ [][GameNext]_vars

\* calculateWinner as a function of any board of nine cells: the Board
\* component is rendered with squares = the board, and its render computes
\* const winner = calculateWinner(squares).
Boards == [Cells -> {Null, "X", "O"}]

WinnerInit ==
  /\ history \in {<<b>> : b \in Boards}
  /\ currentMove = 0
  /\ last = [op |-> "init", arg |-> 0, res |-> "none", dropped |-> 0]

BoardRender ==
  /\ Rendered
  /\ last.op = "init"
  /\ last' = [op |-> "render", arg |-> 0,
              res |-> calculateWinner(currentSquares), dropped |-> 0]
  /\ UNCHANGED <<history, currentMove>>

WinnerNext == BoardRender

WinnerSpec == WinnerInit /\ [][WinnerNext]_vars

----------------------------------------------------------------------------
\* The mark placed by a move made at index m.
Mark(m) == IF m % 2 = 0 THEN "X" ELSE "O"

\* C1: in every reachable state the cursor is a valid index into history,
\* 0 <= currentMove <= length(history) - 1.
C1_CursorValid == 0 <= currentMove /\ currentMove <= Len(history) - 1

\* A state reached by jumping back to the start of a game of two moves or more.
C1_Witness ==
  last.op = "jump" /\ currentMove = 0 /\ Len(history) >= 3

\* C2: a successful move from cursor c keeps the first c+1 snapshots unchanged,
\* appends one board and nothing else, so that the new length is c+2 and the
\* new cursor is c+1, the last index.
C2_PlayTruncatesAndAppends ==
  [][last'.res = "played" =>
       /\ SubSeq(history', 1, currentMove + 1)
            = SubSeq(history, 1, currentMove + 1)
       /\ Len(history') = currentMove + 2
       /\ currentMove' = currentMove + 1
       /\ currentMove' = Len(history') - 1]_vars

\* A move that discarded at least one later snapshot has just been played.
C2_Witness == last.res = "played" /\ last.dropped > 0

\* C3: every snapshot after the first differs from its predecessor in exactly
\* one cell, which was empty and now holds the mark of the player to move at
\* the predecessor's index.
C3_OneMarkPerSnapshot ==
  \A k \in 1 .. Len(history) - 1 :
    LET prev == history[k]
        cur == history[k + 1]
        diff == {j \in Cells : prev[j] # cur[j]}
    IN /\ DOMAIN prev = Cells
       /\ DOMAIN cur = Cells
       /\ Cardinality(diff) = 1
       /\ \A j \in diff : prev[j] = Null /\ cur[j] = Mark(k - 1)

\* A game of at least three moves played without time travel.
C3_Witness ==
  last.res = "played" /\ last.dropped = 0 /\ Len(history) >= 4

\* C4: on a board that has a winner a click on any square, empty or
\* occupied, returns by the winner test and leaves history and cursor alone.
C4_WonRejectsEveryMove ==
  [][(last'.op = "click" /\ Truthy(calculateWinner(currentSquares))) =>
       /\ last'.res = "won"
       /\ UNCHANGED <<history, currentMove>>]_vars

\* A click on an occupied square was rejected because the board has a winner.
C4_Witness ==
  /\ last.res = "won"
  /\ calculateWinner(currentSquares) \in {"X", "O"}
  /\ currentSquares[last.arg] # Null

\* C5 as stated: a click on an occupied square is rejected as occupied and
\* changes neither history nor cursor.
C5_OccupiedRejectedAsOccupied ==
  [][(last'.op = "click" /\ Truthy(Get(currentSquares, last'.arg))) =>
       /\ last'.res = "occupied"
       /\ UNCHANGED <<history, currentMove>>]_vars

\* C5 amended: a click on an occupied square changes neither history nor
\* cursor; it is rejected as occupied when the board has no winner and by the
\* winner test when it has one.
C5_OccupiedRejected ==
  [][(last'.op = "click" /\ Truthy(Get(currentSquares, last'.arg))) =>
       /\ UNCHANGED <<history, currentMove>>
       /\ last'.res = IF Truthy(calculateWinner(currentSquares))
                      THEN "won" ELSE "occupied"]_vars

\* A click on an occupied square of a board without winner was rejected.
C5_Witness ==
  /\ last.res = "occupied"
  /\ calculateWinner(currentSquares) = Null
  /\ currentSquares[last.arg] # Null

\* C6: jumpTo(m) with m a valid index sets the cursor to m and leaves history
\* as it is; history changes only in a step that plays a move.
C6_JumpKeepsHistory ==
  [][/\ (last'.op = "jump" /\ last'.arg \in 0 .. Len(history) - 1) =>
          currentMove' = last'.arg /\ history' = history
     /\ history' # history => last'.res = "played"]_vars

\* The cursor was moved back inside a history with later snapshots.
C6_Witness ==
  /\ last.op = "jump"
  /\ currentMove = last.arg
  /\ currentMove > 0
  /\ currentMove < Len(history) - 1

C9_PlayPlacesMark ==
  [][last'.res = "played" =>
       /\ currentSquares'
            = [currentSquares EXCEPT ![last'.arg] = Mark(currentMove)]
       /\ xIsNext' = ~xIsNext
       /\ (Len(history) = 1 /\ last'.arg = 4) =>
            /\ currentSquares'[4] = "X"
            /\ currentMove' = 1
            /\ ~xIsNext']_vars

\* The first move of a game was played on square 4.
C9_Witness ==
  /\ last.res = "played"
  /\ last.arg = 4
  /\ currentMove = 1
  /\ currentSquares = [EmptyBoard EXCEPT ![4] = "X"]

\* C10: the first snapshot of history is the empty board in every reachable
\* state.
C10_StartBoardEmpty == history[1] = [i \in 0 .. 8 |-> Null]

\* A move was played after jumping back to the start of a longer game.
C10_Witness ==
  /\ last.res = "played"
  /\ last.dropped >= 2
  /\ currentMove = 1
  /\ Len(history) = 2
\* The eight triples in the order the claim C11 lists them.
Triples == << <<0, 1, 2>>, <<3, 4, 5>>, <<6, 7, 8>>,
              <<0, 3, 6>>, <<1, 4, 7>>, <<2, 5, 8>>,
              <<0, 4, 8>>, <<2, 4, 6>> >>

\* The triples of board b whose three cells hold the same mark.
Completed(b) ==
  {k \in 1 .. 8 : /\ b[Triples[k][1]] \in {"X", "O"}
                  /\ b[Triples[k][2]] = b[Triples[k][1]]
                  /\ b[Triples[k][3]] = b[Triples[k][1]]}

\* The board with triple k set to mark p and every other cell empty.
OnlyTriple(k, p) ==
  [j \in Cells |->
     IF j \in {Triples[k][1], Triples[k][2], Triples[k][3]} THEN p ELSE Null]

\* C11: for every board of nine cells over {Empty, X, O} the winner is the
\* mark of the first completed triple in the listed order, and Empty when no
\* triple is completed; so it is Empty for the empty board and P for a board
\* with one triple set to P and every other cell empty.
C11_WinnerIsFirstTriple ==
  last.op = "render" =>
    LET b == history[1]
        done == Completed(b)
    IN /\ done = {} => last.res = Null
       /\ done # {} =>
            \E k \in done : /\ \A j \in done : k <= j
                            /\ last.res = b[Triples[k][1]]
       /\ b = [j \in Cells |-> Null] => last.res = Null
       /\ \A k \in 1 .. 8 : \A p \in {"X", "O"} :
            b = OnlyTriple(k, p) => last.res = p

\* The winner of a board with a completed O triple before a completed X
\* triple was computed.
C11_Witness ==
  /\ last.op = "render"
  /\ \E j, k \in Completed(history[1]) :
       /\ j < k
       /\ history[1][Triples[j][1]] = "O"
       /\ history[1][Triples[k][1]] = "X"
  /\ last.res = "O"
\* C12: no snapshot of a reachable history holds a completed X triple and a
\* completed O triple, so every completed triple of a snapshot carries the
\* mark calculateWinner returns, whichever triple an enumeration meets first.
C12_OneWinningValue ==
  \A n \in 1 .. Len(history) :
    LET b == history[n]
    IN /\ ~ /\ \E k \in Completed(b) : b[Triples[k][1]] = "X"
            /\ \E k \in Completed(b) : b[Triples[k][1]] = "O"
       /\ \A k \in Completed(b) : calculateWinner(b) = b[Triples[k][1]]

\* A snapshot with two completed triples: the last move closed both.
C12_Witness ==
  \E k, j \in Completed(history[Len(history)]) : k # j
\* C13: every snapshot of a reachable history has exactly the nine cells
\* 0 .. 8, each of them Empty, X or O.
C13_NineCells ==
  \A n \in 1 .. Len(history) :
    /\ DOMAIN history[n] = 0 .. 8
    /\ \A j \in 0 .. 8 : history[n][j] \in {Null, "X", "O"}

\* A history of eight snapshots or more whose last move has just been played.
C13_Witness ==
  /\ last.res = "played"
  /\ Len(history) >= 8
  /\ \E j \in Cells : currentSquares[j] = Null
\* The number of cells of board b that hold mark p.
Count(b, p) == Cardinality({j \in Cells : b[j] = p})

\* C14: the snapshot at index k holds exactly k marks, ceil(k/2) of them X
\* and floor(k/2) of them O; so X is to move, by the parity of the cursor,
\* exactly when the current board holds as many X as O.
C14_MarkCounts ==
  /\ \A k \in 0 .. Len(history) - 1 :
       /\ Count(history[k + 1], "X") + Count(history[k + 1], "O") = k
       /\ Count(history[k + 1], "X") = (k + 1) \div 2
       /\ Count(history[k + 1], "O") = k \div 2
  /\ xIsNext <=> Count(currentSquares, "X") = Count(currentSquares, "O")

\* X has just moved from an earlier index, discarding a later branch.
C14_Witness ==
  /\ last.res = "played"
  /\ last.dropped >= 3
  /\ currentMove >= 5
  /\ ~xIsNext
\* The current board is full and has no winner.
Draw ==
  /\ \A j \in Cells : currentSquares[j] \in {"X", "O"}
  /\ calculateWinner(currentSquares) = Null

\* C15: in a state whose current board is full without a winner a click on
\* any square is rejected, as a click on an occupied square and in no way of
\* its own, and leaves history and cursor unchanged.
C15_DrawRejectsEveryMove ==
  [][(Draw /\ last'.op = "click") =>
       /\ last'.res = "occupied"
       /\ UNCHANGED <<history, currentMove>>]_vars

\* A click was rejected on a full board without a winner.
C15_Witness ==
  /\ Draw
  /\ currentMove = 9
  /\ last.op = "click"
  /\ last.res = "occupied"
\* C16: only the last snapshot of history can have a winner; so at any
\* earlier index, also after jumping back from a won game, a click on an
\* empty square is played.
C16_OnlyLastSnapshotWon ==
  /\ [](\A n \in 1 .. Len(history) - 1 : calculateWinner(history[n]) = Null)
  /\ [][(/\ last'.op = "click"
         /\ currentMove < Len(history) - 1
         /\ currentSquares[last'.arg] = Null) =>
          /\ last'.res = "played"
          /\ currentMove' = currentMove + 1]_vars

\* The cursor was moved back from the last snapshot of a won game.
C16_Witness ==
  /\ last.op = "jump"
  /\ currentMove < Len(history) - 1
  /\ calculateWinner(history[Len(history)]) \in {"X", "O"}
\* C17: history holds between 1 and 10 snapshots and the cursor is at most 9;
\* every successful click moves the cursor up by one, so at most nine follow
\* one another, and at cursor 9 every click is rejected.
C17_AtMostNineMoves ==
  /\ [](/\ 1 <= Len(history)
        /\ Len(history) <= 10
        /\ currentMove <= 9)
  /\ [][/\ last'.res = "played" =>
             currentMove' = currentMove + 1 /\ currentMove' <= 9
        /\ (last'.op = "click" /\ currentMove = 9) =>
             /\ last'.res \in {"won", "occupied"}
             /\ UNCHANGED <<history, currentMove>>]_vars

\* The ninth move of a game played without time travel has just been made.
C17_Witness ==
  /\ last.res = "played"
  /\ last.dropped = 0
  /\ Len(history) = 10
  /\ currentMove = 9
====
